---- MODULE Spec2Model ----
(***************************************************************************)
(* State-machine model of the dipy_web request handlers and helpers:       *)
(*   website/views/tools.py               documentation sync, background   *)
(*                                        refresh, API integrations        *)
(*   website/views/manage_publications.py publication management           *)
(*   workshop/views.py                    workshop pages                   *)
(*                                                                         *)
(* Database access follows the Django ORM calls the code makes: each       *)
(* query or save()/delete() is one atomic step; a model instance held by   *)
(* a handler or a thread is a private copy of the row it was loaded from,  *)
(* and save() writes every field of that copy.                             *)
(***************************************************************************)
EXTENDS Integers, Sequences, FiniteSets, TLC

(***************************************************************************)
(* Bounds of the model.                                                    *)
(***************************************************************************)
\* primary keys the DocumentationLink table may hand out
MaxId == 3
\* primary keys the Publication table may hand out
MaxPubId == 2

\* directory names the remote gh-pages listing may contain
Versions == {"1.0", "dev"}
\* non-directory entries the remote listing may contain
FileNames == {"index.html"}
\* request threads that may run update_documentations
Handlers == {"h1"}
\* request threads when two invocations overlap
Syncs == {"h1", "h2"}

\* the order in which the listing names its entries
ListingOrder == <<"1.0", "dev", "index.html">>

Ids == 1..MaxId
PubIds == 1..MaxPubId
\* background threads that may run update_doc_informations at a time
TaskIds == {"t1"}

VARIABLES
    store,      \* DocumentationLink table: primary key -> row or NoRow
    nextId,     \* next primary key of the DocumentationLink table
    hs,         \* per request thread: update_documentations' locals
    tasks,      \* per background thread: update_doc_informations' locals
    pubs,       \* Publication table: primary key -> row or NoPub
    nextPubId,  \* next primary key of the Publication table
    pubResp,    \* the last publication request and its response
    introRes,   \* the last call of a fragment function by a view, its result
    apiRes,     \* the last call of an external integration and its result
    twToken,    \* the process-wide cached Twitter bearer token
    workshops,  \* Workshop table: primary key -> row or NoWorkshop
    now,        \* the clock
    wsResp      \* the last workshop request and its response

docVars == <<store, nextId, hs, tasks>>
pubVars == <<pubs, nextPubId, pubResp>>
introVars == <<introRes>>
apiVars == <<apiRes, twToken>>
wsVars == <<workshops, now, wsResp>>
vars == <<docVars, pubVars, introVars, apiVars, wsVars>>

\* what the handlers of one part leave alone
nonDocVars == <<pubVars, introVars, apiVars, wsVars>>
nonPubVars == <<docVars, introVars, apiVars, wsVars>>
nonIntroVars == <<docVars, pubVars, apiVars, wsVars>>
nonApiVars == <<docVars, pubVars, introVars, wsVars>>
nonWsVars == <<docVars, pubVars, introVars, apiVars>>

(***************************************************************************)
(* Values shared by the parts: a string whose characters matter is a       *)
(* sequence of one-character strings.                                      *)
(***************************************************************************)
\* Python's None where a string may stand
None == <<"(None)">>

\* str(n) of a primary key: its decimal digits
DigitChars == <<"0", "1", "2", "3", "4", "5", "6", "7", "8", "9">>
RECURSIVE Str(_)
Str(n) ==
    IF n < 10 THEN <<DigitChars[n + 1]>>
    ELSE Str(n \div 10) \o <<DigitChars[(n % 10) + 1]>>

(***************************************************************************)
(* DocumentationLink rows.                                                 *)
(***************************************************************************)
\* the absent row, no earlier run
NoRow == [absent |-> TRUE]
NoPk == 0
NoVer == "NoVer"
NoSync == [none |-> TRUE]
BaseUrl == "https://raw.githubusercontent.com/owner/repo/gh-pages/"

\* DocumentationLink(version=version_name, url=page_url): the other fields
\* take the model's defaults; the default of `displayed` is not in the
\* files modelled, so both values are admitted.
NewDoc(version_name, disp) ==
    [version |-> version_name, url |-> <<BaseUrl, version_name>>,
     displayed |-> disp, is_updated |-> FALSE,
     tutorials |-> "init", gallery |-> "init", intro |-> "init"]

Live(st) == {id \in Ids : st[id] # NoRow}

\* DocumentationLink.objects.get(version=v): the number of rows that match
\* decides between the object, DoesNotExist and MultipleObjectsReturned.
MatchCount(st, v) == Cardinality({id \in Live(st) : st[id].version = v})

\* Model.delete(): the row is removed.
DeleteRow(st, pk) == [st EXCEPT ![pk] = NoRow]

\* Model.save() of an instance with a primary key: UPDATE, or INSERT under
\* that key when no row has it.
SaveRow(st, pk, row) == [st EXCEPT ![pk] = row]

\* INSERT into the DocumentationLink table (declared in website/models.py).
\* The record is described with a version label, a URL, two flags and three
\* fragments and with no uniqueness on the label, so the table accepts a row
\* whatever rows it holds.
InsertAccepted(st, row) == row # NoRow

\* doc.is_updated = False
Reset(row) == [row EXCEPT !.is_updated = FALSE]

\* the version labels in the table, with how many rows carry each
VersionCount(st) ==
    [v \in Versions |-> Cardinality({id \in Live(st) : st[id].version = v})]
AllIds(st) == {id \in Ids : st[id] # [absent |-> TRUE]}
\* DocumentationLink.objects.filter(displayed=True), as ids
DisplayedIds(st) == {id \in Live(st) : st[id].displayed}
TrackedVersions(st) == {st[id].version : id \in Live(st)}

NoObjs == [id \in Ids |-> NoRow]
NoCur == [pk |-> NoPk, row |-> NoRow]

(***************************************************************************)
(* update_documentations, one request thread h.                            *)
(***************************************************************************)
HIdle ==
    [pc |-> "idle", contents |-> {}, listing |-> {}, all_versions |-> {},
     pending |-> NoVer, objs |-> NoObjs, todo |-> {}, cur |-> NoCur,
     displayed_id |-> {}, resp |-> "none", ret |-> None, base |-> NoSync]

\* the next element of a loop over rows (by primary key) and over the
\* listing (in the order of the response)
MinId(S) == CHOOSE id \in S : \A j \in S : id <= j
Rank(name) == CHOOSE i \in 1..Len(ListingOrder) : ListingOrder[i] = name
FirstEntry(S) == CHOOSE c \in S : \A d \in S : Rank(c.name) <= Rank(d.name)

\* '_'.join(map(str, displayed_id)), the ids in the order of the queryset
RECURSIVE JoinIds(_)
JoinIds(S) ==
    IF S = {} THEN <<>>
    ELSE LET id == MinId(S)
             rest == S \ {id} IN
         IF rest = {} THEN Str(id)
         ELSE Str(id) \o <<"_">> \o JoinIds(rest)

Entries(dirs, files) ==
    {[name |-> d, type |-> "dir"] : d \in dirs}
        \cup {[name |-> f, type |-> "file"] : f \in files}

\* lines 194-196: the listing is fetched and parsed
SyncStart(h) ==
    /\ hs[h].pc = "idle"
    /\ \E dirs \in SUBSET Versions, files \in SUBSET FileNames :
          hs' = [hs EXCEPT ![h] =
                    [HIdle EXCEPT !.pc = "create",
                                  !.contents = Entries(dirs, files),
                                  !.listing = dirs,
                                  !.base = hs[h].base]]
    /\ UNCHANGED <<store, nextId, tasks, nonDocVars>>

\* lines 194-195: requests.get or response.json() raises
SyncStartFails(h) ==
    /\ hs[h].pc = "idle"
    /\ hs' = [hs EXCEPT ![h] = [HIdle EXCEPT !.resp = "error"]]
    /\ UNCHANGED <<store, nextId, tasks, nonDocVars>>

\* lines 199-206: one entry of the listing; for a directory the lookup
SyncCheck(h) ==
    /\ hs[h].pc = "create"
    /\ hs[h].contents # {}
    /\ LET c == FirstEntry(hs[h].contents)
           rest == hs[h].contents \ {c} IN
          IF c.type # "dir"
          THEN hs' = [hs EXCEPT ![h].contents = rest]
          ELSE LET seen == hs[h].all_versions \cup {c.name}
                   n == MatchCount(store, c.name) IN
               CASE n = 1 ->
                      hs' = [hs EXCEPT ![h].contents = rest,
                                       ![h].all_versions = seen]
                 [] n = 0 ->
                      hs' = [hs EXCEPT ![h].contents = rest,
                                       ![h].all_versions = seen,
                                       ![h].pending = c.name,
                                       ![h].pc = "insert"]
                 [] OTHER ->
                      \* MultipleObjectsReturned is not caught
                      hs' = [hs EXCEPT ![h] = [HIdle EXCEPT !.resp = "error"]]
    /\ UNCHANGED <<store, nextId, tasks, nonDocVars>>

\* lines 207-209: d = DocumentationLink(...); d.save()
SyncInsert(h) ==
    /\ hs[h].pc = "insert"
    /\ nextId <= MaxId
    /\ \E disp \in BOOLEAN :
          /\ InsertAccepted(store, NewDoc(hs[h].pending, disp))
          /\ store' = SaveRow(store, nextId, NewDoc(hs[h].pending, disp))
    /\ nextId' = nextId + 1
    /\ hs' = [hs EXCEPT ![h].pending = NoVer, ![h].pc = "create"]
    /\ UNCHANGED <<tasks, nonDocVars>>

\* lines 210, 213: the queryset is evaluated when the loop starts
SyncLoad(h) ==
    /\ hs[h].pc = "create"
    /\ hs[h].contents = {}
    /\ hs' = [hs EXCEPT ![h].objs = store,
                        ![h].todo = Live(store),
                        ![h].pc = "pass"]
    /\ UNCHANGED <<store, nextId, tasks, nonDocVars>>

\* lines 213-217 for a doc whose version is listed: reset and save
SyncResetKept(h) ==
    /\ hs[h].pc = "pass"
    /\ hs[h].todo # {}
    /\ LET id == MinId(hs[h].todo) IN
          /\ hs[h].objs[id].version \in hs[h].all_versions
          /\ store' = SaveRow(store, id, Reset(hs[h].objs[id]))
          /\ hs' = [hs EXCEPT ![h].todo = hs[h].todo \ {id},
                              ![h].objs[id] = NoRow]
    /\ UNCHANGED <<nextId, tasks, nonDocVars>>

\* lines 214-215 for a doc whose version is not listed: doc.delete().
\* Model.delete() removes the row and leaves the instance with its
\* primary key set to None.
SyncDelete(h) ==
    /\ hs[h].pc = "pass"
    /\ hs[h].todo # {}
    /\ LET id == MinId(hs[h].todo) IN
          /\ hs[h].objs[id].version \notin hs[h].all_versions
          /\ store' = DeleteRow(store, id)
          /\ hs' = [hs EXCEPT ![h].todo = hs[h].todo \ {id},
                              ![h].objs[id] = NoRow,
                              ![h].cur = [pk |-> NoPk,
                                          row |-> hs[h].objs[id]],
                              ![h].pc = "resave"]
    /\ UNCHANGED <<nextId, tasks, nonDocVars>>

\* lines 216-217 after the delete: doc.is_updated = False; doc.save().
\* The instance has no primary key any more, so save() inserts a new row
\* with the instance's fields.
SyncResave(h) ==
    /\ hs[h].pc = "resave"
    /\ hs[h].cur.pk = NoPk
    /\ nextId <= MaxId
    /\ InsertAccepted(store, Reset(hs[h].cur.row))
    /\ store' = SaveRow(store, nextId, Reset(hs[h].cur.row))
    /\ nextId' = nextId + 1
    /\ hs' = [hs EXCEPT ![h].cur = NoCur, ![h].pc = "pass"]
    /\ UNCHANGED <<tasks, nonDocVars>>

\* a fragment fetch of the thread: the requests made and how the function
\* ended
Fragment(calls, result) == [calls |-> calls, result |-> result]
NoFetch == Fragment(<<>>, "none")

TFree ==
    [pc |-> "none", ids |-> {}, objs |-> NoObjs, todo |-> {}, cur |-> NoCur,
     last |-> NoFetch]
TDone == [TFree EXCEPT !.pc = "done"]
TFailed == [TFree EXCEPT !.pc = "failed"]
Finished(t) == tasks[t].pc \in {"none", "done", "failed"}

\* lines 219-226: the displayed records' ids are read and the thread is
\* started with them
SyncLaunch(h) ==
    /\ hs[h].pc = "pass"
    /\ hs[h].todo = {}
    /\ \E t \in TaskIds :
          /\ Finished(t)
          /\ tasks' = [tasks EXCEPT ![t] =
                          [TFree EXCEPT !.pc = "load",
                                        !.ids = DisplayedIds(store)]]
    /\ hs' = [hs EXCEPT ![h].displayed_id = DisplayedIds(store),
                        ![h].pc = "return"]
    /\ UNCHANGED <<store, nextId, nonDocVars>>

\* line 227: the ids the thread was given are joined and returned
SyncReturn(h) ==
    /\ hs[h].pc = "return"
    /\ hs' = [hs EXCEPT ![h] =
                  [HIdle EXCEPT !.resp = "ok",
                                !.ret = JoinIds(hs[h].displayed_id),
                                !.base = [listing |-> hs[h].listing,
                                          count |-> VersionCount(store)]]]
    /\ UNCHANGED <<store, nextId, tasks, nonDocVars>>

(***************************************************************************)
(* update_doc_informations, one background thread t.                       *)
(***************************************************************************)
\* the for loop takes the next loaded doc, or the function returns
Advance(rec) ==
    IF rec.todo = {}
    THEN {[TDone EXCEPT !.last = rec.last]}
    ELSE {[rec EXCEPT !.todo = rec.todo \ {id},
                      !.objs[id] = NoRow,
                      !.cur = [pk |-> id, row |-> rec.objs[id]],
                      !.pc = "tutorials"] : id \in {MinId(rec.todo)}}

\* line 231: DocumentationLink.objects.filter(id__in=ids) is evaluated
TaskLoad(t) ==
    /\ tasks[t].pc = "load"
    /\ LET found == tasks[t].ids \cap Live(store)
           rec == [tasks[t] EXCEPT
                      !.objs = [id \in Ids |->
                                   IF id \in found THEN store[id] ELSE NoRow],
                      !.todo = found] IN
       \E nxt \in Advance(rec) : tasks' = [tasks EXCEPT ![t] = nxt]
    /\ UNCHANGED <<store, nextId, hs, nonDocVars>>

\* an outbound request: the address asked and what the request met
Call(url, met) == [url |-> url, met |-> met]

\* the version labels that contain 'dev'
DevVersions == {"dev"}
\* the labels in ascending string order
VersionOrder == <<"1.0", "dev">>
VersionRank(v) == CHOOSE i \in 1..Len(VersionOrder) : VersionOrder[i] = v

\* get_docs(version), lines 319-332: the version of doc[0], or NoVer when
\* the result is the empty list; the argument NoVer is version=None
DocsVersion(st, version) ==
    LET first == IF version = NoVer
                 THEN {id \in Live(st) : st[id].displayed
                                          /\ st[id].version \notin DevVersions}
                 ELSE {id \in Live(st) : st[id].version = version}
        doc == IF first # {} THEN first ELSE DisplayedIds(st) IN
    IF doc = {} THEN NoVer
    ELSE LET top == CHOOSE id \in doc : \A j \in doc :
                        VersionRank(st[j].version) <= VersionRank(st[id].version)
         IN st[top].version

\* What a request of a fragment fetch can meet: a document the function
\* parses to its result, status 404, or something it raises on (a
\* connection error, a body that is no JSON or lacks an element looked up,
\* a failing request for an example).
Answers == {"ok", "not found", "error"}
\* the second request is made after a 404 only
SecondAnswers(a1) == IF a1 = "not found" THEN Answers ELSE {"none"}

\* path of get_doc_examples (line 479), get_doc_examples_images (line 562)
\* and get_dipy_intro (line 342), by the fragment the thread fetches
Path(pc) ==
    CASE pc = "tutorials" -> "examples_index"
      [] pc = "gallery" -> "examples_index"
      [] pc = "intro" -> "index"

\* lines 346/349, 483/486, 566/569: the direct file, the directory index
FragmentUrl(version, path) == <<BaseUrl, version, "/", path, ".fjson">>
FragmentIndexUrl(version, path) ==
    <<BaseUrl, version, "/", path, "/index.fjson">>

FragmentFetchStrict(st, pc, version, a1, a2) ==
    IF Live(st) = {} THEN Fragment(<<>>, "blank")
    ELSE IF DocsVersion(st, version) = NoVer THEN Fragment(<<>>, "raise")
    ELSE LET v == DocsVersion(st, version)
             direct == Call(FragmentUrl(v, Path(pc)), a1)
             index == Call(FragmentIndexUrl(v, Path(pc)), a2) IN
         CASE a1 = "ok" -> Fragment(<<direct>>, "value")
           [] a1 = "not found" /\ a2 = "ok" ->
                 Fragment(<<direct, index>>, "value")
           [] a1 = "not found" -> Fragment(<<direct, index>>, "raise")
           [] OTHER -> Fragment(<<direct>>, "raise")

\* get_doc_examples (lines 473-489), get_doc_examples_images (557-572)
\* and get_dipy_intro (337-352) called with a record's version, when the
\* first request meets a1 and the second, if made, a2: "blank" is the
\* early return on an empty table, "raise" any exception (doc[0] on the
\* empty result of get_docs included), "empty" the [] after two 404s
FragmentFetch(st, pc, version, a1, a2) ==
    IF Live(st) = {} THEN Fragment(<<>>, "blank")
    ELSE IF DocsVersion(st, version) = NoVer THEN Fragment(<<>>, "raise")
    ELSE LET v == DocsVersion(st, version)
             direct == Call(FragmentUrl(v, Path(pc)), a1)
             index == Call(FragmentIndexUrl(v, Path(pc)), a2) IN
         CASE a1 = "ok" -> Fragment(<<direct>>, "value")
           [] a1 = "not found" /\ a2 = "ok" ->
                 Fragment(<<direct, index>>, "value")
           [] a1 = "not found" /\ a2 = "not found" ->
                 Fragment(<<direct, index>>, "empty")
           [] a1 = "not found" -> Fragment(<<direct, index>>, "raise")
           [] OTHER -> Fragment(<<direct>>, "raise")

\* The value a fetch returned, as the thread stores it in the fragment
\* field: the content is not modelled, only that it replaced "init".
Fetched == "fetched"

NextFragment(pc) ==
    CASE pc = "tutorials" -> "gallery"
      [] pc = "gallery" -> "intro"

\* the assignment that follows each fetch: lines 233, 236, 239-240
Assign(row, pc, val) ==
    CASE pc = "tutorials" -> [row EXCEPT !.tutorials = val]
      [] pc = "gallery" -> [row EXCEPT !.gallery = val]
      [] pc = "intro" -> [row EXCEPT !.intro = val, !.is_updated = TRUE]

\* lines 233-234, 236-237: a fetch returns, the fragment is assigned and
\* doc.save() writes the copy.  Between the fetch and the save the thread
\* touches nothing shared, so the two are one step.
TaskRefresh(t) ==
    /\ tasks[t].pc \in {"tutorials", "gallery"}
    /\ \E a1 \in Answers : \E a2 \in SecondAnswers(a1) :
          LET f == FragmentFetch(store, tasks[t].pc,
                                 tasks[t].cur.row.version, a1, a2)
              row == Assign(tasks[t].cur.row, tasks[t].pc, Fetched) IN
          /\ f.result # "raise"
          /\ store' = SaveRow(store, tasks[t].cur.pk, row)
          /\ tasks' = [tasks EXCEPT ![t].cur.row = row,
                                    ![t].last = f,
                                    ![t].pc = NextFragment(tasks[t].pc)]
    /\ UNCHANGED <<nextId, hs, nonDocVars>>

\* lines 239-241: the intro is fetched, the copy is marked updated and
\* saved; the loop goes on to the next doc
TaskRefreshLast(t) ==
    /\ tasks[t].pc = "intro"
    /\ \E a1 \in Answers : \E a2 \in SecondAnswers(a1) :
          LET f == FragmentFetch(store, "intro",
                                 tasks[t].cur.row.version, a1, a2) IN
          /\ f.result # "raise"
          /\ store' = SaveRow(store, tasks[t].cur.pk,
                              Assign(tasks[t].cur.row, "intro", Fetched))
          /\ \E nxt \in Advance([tasks[t] EXCEPT !.cur = NoCur,
                                                  !.last = f]) :
                tasks' = [tasks EXCEPT ![t] = nxt]
    /\ UNCHANGED <<nextId, hs, nonDocVars>>

SkipDoc(rec) == CHOOSE nxt \in Advance([rec EXCEPT !.cur = NoCur]) : TRUE
\* lines 230-243 have no try: an exception of a fetch leaves the loop and
\* the function, and the thread ends
Raise(rec) == [TFailed EXCEPT !.last = rec.last]

\* lines 233, 236, 239: a fragment fetch raises
TaskFetchRaises(t) ==
    /\ tasks[t].pc \in {"tutorials", "gallery", "intro"}
    /\ \E a1 \in Answers : \E a2 \in SecondAnswers(a1) :
          LET f == FragmentFetch(store, tasks[t].pc,
                                 tasks[t].cur.row.version, a1, a2) IN
          /\ f.result = "raise"
          /\ tasks' = [tasks EXCEPT ![t] = Raise([tasks[t] EXCEPT !.last = f])]
    /\ UNCHANGED <<store, nextId, hs, nonDocVars>>

(***************************************************************************)
(* Specification of the documentation sync.                                *)
(***************************************************************************)
InitDocs ==
    /\ store = [id \in Ids |-> NoRow]
    /\ nextId = 1
    /\ hs = [h \in Syncs |-> HIdle]
    /\ tasks = [t \in TaskIds |-> TFree]

NextDocs ==
    \/ \E h \in Handlers :
          \/ SyncStart(h)
          \/ SyncStartFails(h)
          \/ SyncCheck(h)
          \/ SyncInsert(h)
          \/ SyncLoad(h)
          \/ SyncResetKept(h)
          \/ SyncDelete(h)
          \/ SyncResave(h)
          \/ SyncLaunch(h)
          \/ SyncReturn(h)
    \/ \E t \in TaskIds :
          \/ TaskLoad(t)
          \/ TaskRefresh(t)
          \/ TaskRefreshLast(t)
          \/ TaskFetchRaises(t)

(***************************************************************************)
(* Strings whose characters matter are sequences of one-character strings. *)
(***************************************************************************)
UpperChars ==
    <<"A", "B", "C", "D", "E", "F", "G", "H", "I", "J", "K", "L", "M",
      "N", "O", "P", "Q", "R", "S", "T", "U", "V", "W", "X", "Y", "Z">>
LowerChars ==
    <<"a", "b", "c", "d", "e", "f", "g", "h", "i", "j", "k", "l", "m",
      "n", "o", "p", "q", "r", "s", "t", "u", "v", "w", "x", "y", "z">>

\* raise Http404(...)
NotFound == "Http404"

\* str.lower()
LowerChar(c) ==
    IF \E i \in 1..Len(UpperChars) : UpperChars[i] = c
    THEN LowerChars[CHOOSE i \in 1..Len(UpperChars) : UpperChars[i] = c]
    ELSE c
Lower(l) == [i \in 1..Len(l) |-> LowerChar(l[i])]

\* str.startswith(p)
StartsWith(l, p) == Len(p) <= Len(l) /\ SubSeq(l, 1, Len(p)) = p

\* p in l
Contains(l, p) ==
    \E i \in 1..(Len(l) - Len(p) + 1) : SubSeq(l, i, i + Len(p) - 1) = p

(***************************************************************************)
(* get_dipy_intro (tools.py): the home page's intro, announcements and     *)
(* highlights fragments.                                                   *)
(***************************************************************************)
HashMark == <<"#">>
Http == <<"h", "t", "t", "p", ":", "/">>
Https == <<"h", "t", "t", "p", "s", ":", "/">>
LatestPrefix == <<"documentation/latest/">>

\* link.get('href') of an anchor that has no href attribute
NoHref == <<"(None)">>

\* the hrefs and image sources of the pages fetched: "#a", "http://a",
\* "https://a", "a", "HTTP://a", "a?http://b", "" and no href at all
Hrefs ==
    {<<"#", "a">>,
     <<"h", "t", "t", "p", ":", "/", "/", "a">>,
     <<"h", "t", "t", "p", "s", ":", "/", "/", "a">>,
     <<"a">>,
     <<"H", "T", "T", "P", ":", "/", "/", "a">>,
     <<"a", "?", "h", "t", "t", "p", ":", "/", "/", "b">>,
     <<>>,
     NoHref}
Srcs ==
    {<<"a">>,
     <<"h", "t", "t", "p", ":", "/", "/", "a">>,
     <<"H", "T", "T", "P", "S", ":", "/", "/", "a">>}

\* lines 366-370: the href a link of the highlights container ends with
HighlightHref(l) ==
    IF StartsWith(Lower(l), HashMark) \/ Contains(l, Http) \/ Contains(l, Https)
    THEN l
    ELSE LatestPrefix \o l

\* lines 374-378: the same for the announcements container
AnnouncementHref(l) ==
    IF StartsWith(Lower(l), HashMark) \/ Contains(Lower(l), Http)
           \/ Contains(Lower(l), Https)
    THEN l
    ELSE LatestPrefix \o l

\* lines 379-383: the src an image of the announcements ends with
AnnouncementSrc(l, version) ==
    IF Contains(Lower(l), Http) \/ Contains(Lower(l), Https)
    THEN l
    ELSE <<BaseUrl, version, "/">> \o l

\* lines 346 and 349: the two addresses tried
IntroUrl(version) == <<BaseUrl, version, "/", "index", ".fjson">>
IntroIndexUrl(version) == <<BaseUrl, version, "/", "index", "/index.fjson">>

IntroRes(arg, status, requests, page, out) ==
    [op |-> "intro", version |-> arg, status |-> status,
     requests |-> requests, page |-> page, out |-> out]

\* a page: the hrefs of the links of the highlights container, those of
\* the announcements container and the srcs of its images, in page order
NoPage == [highlight |-> <<>>, announcement |-> <<>>, img |-> <<>>]
LinkLists ==
    {<<h>> : h \in Hrefs}
        \cup {<<<<"h", "t", "t", "p", ":", "/", "/", "a">>, <<"a">>>>}
Pages ==
    {NoPage}
        \cup {[NoPage EXCEPT !.highlight = ls] : ls \in LinkLists}
        \cup {[NoPage EXCEPT !.announcement = ls] : ls \in LinkLists}
        \cup {[NoPage EXCEPT !.img = <<i>>] : i \in Srcs}

\* the for loops of lines 366-383 over a page
Rewritten(page, version) ==
    [highlight |-> [k \in 1..Len(page.highlight) |->
                       HighlightHref(page.highlight[k])],
     announcement |-> [k \in 1..Len(page.announcement) |->
                          AnnouncementHref(page.announcement[k])],
     img |-> [k \in 1..Len(page.img) |->
                 AnnouncementSrc(page.img[k], version)]]

\* l.lower() on a link without href raises
HrefMissing(page) ==
    \/ \E k \in 1..Len(page.highlight) : page.highlight[k] = NoHref
    \/ \E k \in 1..Len(page.announcement) : page.announcement[k] = NoHref

\* line 337-338: no DocumentationLink at all
GetDipyIntroBlank ==
    \E arg \in Versions \cup {NoVer} :
        /\ Live(store) = {}
        /\ introRes' = IntroRes(arg, "blank", <<>>, NoPage, NoPage)
        /\ UNCHANGED nonIntroVars

\* lines 340-341: get_docs finds nothing and doc[0] raises IndexError
GetDipyIntroNoDocs ==
    \E arg \in Versions \cup {NoVer} :
        /\ Live(store) # {}
        /\ DocsVersion(store, arg) = NoVer
        /\ introRes' = IntroRes(arg, "raise", <<>>, NoPage, NoPage)
        /\ UNCHANGED nonIntroVars

\* lines 340-352: both addresses answer 404 and [] is returned
GetDipyIntroNotFound ==
    \E arg \in Versions \cup {NoVer} :
        LET version == DocsVersion(store, arg) IN
        /\ Live(store) # {}
        /\ version # NoVer
        /\ introRes' = IntroRes(arg, "empty",
                                <<IntroUrl(version), IntroIndexUrl(version)>>,
                                NoPage, NoPage)
        /\ UNCHANGED nonIntroVars

\* lines 340-365: a request raises, or the body is no JSON or lacks one of
\* the elements looked up
GetDipyIntroRaises ==
    \E arg \in Versions \cup {NoVer}, second \in BOOLEAN :
        LET version == DocsVersion(store, arg) IN
        /\ Live(store) # {}
        /\ version # NoVer
        /\ introRes' = IntroRes(arg, "raise",
                                IF second
                                THEN <<IntroUrl(version), IntroIndexUrl(version)>>
                                ELSE <<IntroUrl(version)>>,
                                NoPage, NoPage)
        /\ UNCHANGED nonIntroVars

\* lines 340-385: a page is fetched at the first or at the second address
\* and its links and images are rewritten
GetDipyIntro ==
    \E arg \in Versions \cup {NoVer}, second \in BOOLEAN, page \in Pages :
        LET version == DocsVersion(store, arg)
            requests == IF second
                        THEN <<IntroUrl(version), IntroIndexUrl(version)>>
                        ELSE <<IntroUrl(version)>> IN
        /\ Live(store) # {}
        /\ version # NoVer
        /\ introRes' =
              IF HrefMissing(page)
              THEN IntroRes(arg, "raise", requests, page, NoPage)
              ELSE IntroRes(arg, "ok", requests, page,
                            Rewritten(page, version))
        /\ UNCHANGED nonIntroVars

(***************************************************************************)
(* get_doc_examples (tools.py): the tutorials listing.                     *)
(***************************************************************************)
\* major sections a listing may have
MaxSections == 2

\* the prefix of line 440
ExamplesBuilt ==
    <<".", ".", "/", "e", "x", "a", "m", "p", "l", "e", "s", "_", "b", "u", "i", "l", "t">>

\* li.find("a") of a list item without a link
NoLink == <<"(no a)">>
\* the links of the list items: "../examples_built/a/", 
\* "../examples_built2/b", "../examples/c", "examples_built/d", a link
\* without href, and an item without a link
HrefBuilt == ExamplesBuilt \o <<"/", "a", "/">>
HrefBuiltTwo == ExamplesBuilt \o <<"2", "/", "b">>
HrefExamples == <<".", ".", "/", "e", "x", "a", "m", "p", "l", "e", "s", "/", "c">>
HrefNoDots == <<"e", "x", "a", "m", "p", "l", "e", "s", "_", "b", "u", "i", "l", "t", "/", "d">>

\* a section: its heading, its ul's list items by the link of each (or no
\* ul at all), and for a major section its direct child sections
Section(title, ul, items, minors) ==
    [title |-> title, ul |-> ul, items |-> items, minors |-> minors]
MajorSections ==
    {Section("A", TRUE, <<HrefBuilt>>, <<>>),
     Section("B", TRUE, <<HrefExamples, HrefNoDots>>, <<>>),
     Section("C", TRUE, <<NoLink, HrefBuiltTwo, HrefBuilt>>, <<>>),
     Section("D", TRUE, <<HrefBuilt>>,
             <<Section("d1", TRUE, <<HrefBuilt>>, <<>>),
               Section("d2", TRUE, <<>>, <<>>)>>),
     Section("E", TRUE, <<NoHref>>, <<>>),
     Section("F", FALSE, <<>>, <<>>)}
RECURSIVE SeqsUpTo(_, _)
SeqsUpTo(S, n) ==
    IF n = 0 THEN {<<>>}
    ELSE SeqsUpTo(S, n - 1)
             \cup {Append(q, x) : q \in {r \in SeqsUpTo(S, n - 1) :
                                             Len(r) = n - 1}, x \in S}
ExamplePages == SeqsUpTo(MajorSections, MaxSections)

\* line 440: link and link.get('href').startswith('../examples_built')
Recognized(a) == a # NoLink /\ StartsWith(a, ExamplesBuilt)

\* line 442: "/".join(href[3:].split("/")[:-1])
RelUrl(href) ==
    LET rest == SubSeq(href, 4, Len(href))
        slashes == {i \in 1..Len(rest) : rest[i] = "/"} IN
    IF slashes = {} THEN <<>>
    ELSE SubSeq(rest, 1, (CHOOSE i \in slashes : \A j \in slashes : j <= i) - 1)

\* lines 443 and 454-457: the address asked for an example, and its entry
ExampleUrl(version, href) == <<BaseUrl, version, "/">> \o RelUrl(href) \o <<".fjson">>
Example(version, path, href) ==
    [link |-> <<"/documentation/", version, "/", path, "/">> \o href,
     from |-> ExampleUrl(version, href)]

\* get_examples_list_from_li_tags, lines 429-462, over the links of the
\* list items
ExamplesList(version, path, items) ==
    LET sel == SelectSeq(items, Recognized) IN
    [k \in 1..Len(sel) |-> Example(version, path, sel[k])]

\* lines 439-440 and 520, 537: .startswith on a link without href and
\* .find_all on a section without ul raise AttributeError
SectionRaises(sec) ==
    ~sec.ul \/ \E k \in 1..Len(sec.items) : sec.items[k] = NoHref
MajorRaises(major) ==
    IF Len(major.minors) = 0 THEN SectionRaises(major)
    ELSE \E k \in 1..Len(major.minors) : SectionRaises(major.minors[k])

\* lines 531-546: the entry of a minor section
MinorDict(version, path, minor) ==
    LET examples == ExamplesList(version, path, minor.items) IN
    [title |-> minor.title, examples_list |-> examples,
     valid |-> Len(examples) # 0]

\* lines 508-528: the entry of a major section
MajorDict(version, path, major) ==
    IF Len(major.minors) = 0
    THEN LET examples == ExamplesList(version, path, major.items) IN
         [title |-> major.title, minor_sections |-> <<>>,
          examples_list |-> examples, valid |-> Len(examples) # 0]
    ELSE [title |-> major.title,
          minor_sections |-> [k \in 1..Len(major.minors) |->
                                 MinorDict(version, path, major.minors[k])],
          examples_list |-> <<>>, valid |-> TRUE]

IsValidMajor(major) ==
    Len(major.minors) # 0
        \/ \E k \in 1..Len(major.items) : Recognized(major.items[k])
DocExamplesValidOnly(version, page) ==
    LET kept == SelectSeq(page, IsValidMajor) IN
    [k \in 1..Len(kept) |-> MajorDict(version, "examples_index", kept[k])]

\* lines 507-549: one entry per major section, in the order of the page
DocExamples(version, page) ==
    [k \in 1..Len(page) |-> MajorDict(version, "examples_index", page[k])]

ExamplesRes(arg, status, calls, page, out) ==
    [op |-> "examples", version |-> arg, status |-> status, calls |-> calls,
     page |-> page, out |-> out]

\* get_doc_examples, lines 465-489, when it ends before a page is parsed:
\* [] on an empty table and after two 404s, an exception otherwise
GetDocExamplesNoPage ==
    \E arg \in Versions \cup {NoVer} :
        \E a1 \in Answers : \E a2 \in SecondAnswers(a1) :
            LET f == FragmentFetch(store, "tutorials", arg, a1, a2) IN
            /\ f.result # "value"
            /\ introRes' =
                  ExamplesRes(arg,
                              IF f.result = "raise" THEN "raise" ELSE "empty",
                              f.calls, <<>>, <<>>)
            /\ UNCHANGED nonIntroVars

\* get_doc_examples, lines 465-549, when one of the two addresses answers
\* with the page
GetDocExamples ==
    \E arg \in Versions \cup {NoVer}, a1 \in {"ok", "not found"},
       page \in ExamplePages :
        LET f == FragmentFetch(store, "tutorials", arg, a1, "ok")
            version == DocsVersion(store, arg) IN
        /\ f.result = "value"
        /\ introRes' =
              IF \E k \in 1..Len(page) : MajorRaises(page[k])
              THEN ExamplesRes(arg, "raise", f.calls, page, <<>>)
              ELSE ExamplesRes(arg, "ok", f.calls, page,
                               DocExamples(version, page))
        /\ UNCHANGED nonIntroVars

(***************************************************************************)
(* External integrations (tools.py).  A call's record keeps its arguments, *)
(* the outbound requests it made with what each met, and its result.       *)
(***************************************************************************)
\* repositories a listing answers with at most
MaxRepos == 2
\* items a YouTube search answers with at most
MaxItems == 2

GithubUrl == "https://api.github.com/orgs/dipy/repos"
FacebookUrl == "https://graph.facebook.com/<page_id>/feed"
TwitterTokenUrl == "https://api.twitter.com/oauth2/token"
TwitterUrl == "https://api.twitter.com/1.1/statuses/user_timeline.json"
YoutubeUrl == "https://www.googleapis.com/youtube/v3/search"

\* results
RTrue == [kind |-> "bool", value |-> TRUE]
RFalse == [kind |-> "bool", value |-> FALSE]
REmpty == [kind |-> "empty"]
RValue(v) == [kind |-> "value", value |-> v]
RRaise(exc) == [kind |-> "raise", exc |-> exc]

\* the entries of a repository listing
RepoNames == {"dipy", "dipy_web"}
Permissions ==
    {[admin |-> TRUE, push |-> TRUE, pull |-> TRUE],
     [admin |-> FALSE, push |-> TRUE, pull |-> TRUE],
     [admin |-> TRUE, push |-> FALSE, pull |-> TRUE],
     [admin |-> TRUE, push |-> TRUE, pull |-> FALSE],
     [admin |-> FALSE, push |-> FALSE, pull |-> FALSE]}
\* the repository the site asks about
RequestedRepos == {"dipy_web"}
RepoEntries == [name : RepoNames, permissions : Permissions]
Listings == UNION {[1..n -> RepoEntries] : n \in 0..MaxRepos}

AnyPermission(p) == p.admin \/ p.push \/ p.pull

\* lines 74-76
AllPermissions(p) == p.admin /\ p.push /\ p.pull

\* lines 71-78: the loop over the listing
RECURSIVE GrantedFrom(_, _, _)
GrantedFrom(listing, repository_name, k) ==
    IF k > Len(listing) THEN FALSE
    ELSE IF listing[k].name = repository_name
            /\ AllPermissions(listing[k].permissions)
    THEN TRUE
    ELSE GrantedFrom(listing, repository_name, k + 1)

GithubRes(token, repo, calls, listing, result) ==
    [op |-> "github", token |-> token, repo |-> repo, calls |-> calls,
     listing |-> listing, result |-> result]

\* has_commit_permission, lines 54-78.  The request raises a connection
\* error, or the body is no JSON or no list of repositories, or it is a
\* listing.
HasCommitPermission ==
    \E token \in {<<>>, <<"tok">>}, repo \in RequestedRepos :
        /\ \/ /\ token = <<>>
              /\ apiRes' = GithubRes(token, repo, <<>>, <<>>, RFalse)
           \/ /\ token # <<>>
              /\ \E met \in {"ConnectionError", "not json", "not a list"} :
                    apiRes' = GithubRes(token, repo, <<Call(GithubUrl, met)>>,
                                        <<>>, RRaise(met))
           \/ /\ token # <<>>
              /\ \E listing \in Listings :
                    apiRes' = GithubRes(token, repo,
                                        <<Call(GithubUrl, "ok")>>, listing,
                                        IF GrantedFrom(listing, repo, 1)
                                        THEN RTrue ELSE RFalse)
        /\ UNCHANGED <<twToken, nonApiVars>>

\* get_facebook_page_feed, lines 81-106
GetFacebookPageFeed ==
    \E met \in {"ConnectionError", "not json", "data", "no data"} :
        /\ apiRes' = [op |-> "facebook",
                      calls |-> <<Call(FacebookUrl, met)>>,
                      result |-> CASE met = "ConnectionError" -> REmpty
                                   [] met = "not json" -> RRaise(met)
                                   [] met = "data" -> RValue(<<"post">>)
                                   [] met = "no data" -> REmpty]
        /\ UNCHANGED <<twToken, nonApiVars>>

\* the tokens Twitter hands out
Tokens == {<<"tokA">>, <<"tokB">>}

ExchangeNotStored ==
    {[call |-> Call(TwitterTokenUrl, "ConnectionError"), token |-> None,
      raises |-> FALSE],
     [call |-> Call(TwitterTokenUrl, "no access_token"), token |-> None,
      raises |-> FALSE],
     [call |-> Call(TwitterTokenUrl, "not json"), token |-> None,
      raises |-> TRUE]}
        \cup {[call |-> Call(TwitterTokenUrl, "ok"), token |-> t,
               raises |-> FALSE] : t \in Tokens}
\* get_twitter_bearer_token, lines 109-137, for what the exchange met: the
\* call made and the token stored and returned; a body that is no JSON
\* raises before anything is stored
ExchangeOutcomes ==
    {[call |-> Call(TwitterTokenUrl, "ConnectionError"), token |-> <<>>,
      raises |-> FALSE],
     [call |-> Call(TwitterTokenUrl, "no access_token"), token |-> <<>>,
      raises |-> FALSE],
     [call |-> Call(TwitterTokenUrl, "not json"), token |-> None,
      raises |-> TRUE]}
        \cup {[call |-> Call(TwitterTokenUrl, "ok"), token |-> t,
               raises |-> FALSE] : t \in Tokens}

TwitterRes(token, calls, result) ==
    [op |-> "twitter", token |-> token, calls |-> calls, result |-> result]

NeverCached(env) == FALSE
\* lines 153-156: os.environ["TWITER_TOKEN"] raises no KeyError
Cached(env) == env # None

\* get_twitter_feed, lines 140-165, with the token exchange when the
\* environment holds no token
GetTwitterFeed ==
    \E x \in ExchangeOutcomes,
       met \in {"ConnectionError", "not json", "ok"} :
        LET fresh == ~Cached(twToken)
            token == IF fresh THEN x.token ELSE twToken
            pre == IF fresh THEN <<x.call>> ELSE <<>> IN
        /\ IF fresh /\ x.raises
           THEN /\ apiRes' = TwitterRes(None, pre, RRaise(x.call.met))
                /\ UNCHANGED twToken
           ELSE /\ twToken' = token
                /\ apiRes' =
                      TwitterRes(token, pre \o <<Call(TwitterUrl, met)>>,
                                 CASE met = "ConnectionError" -> REmpty
                                   [] met = "not json" -> RRaise(met)
                                   [] met = "ok" -> RValue(<<"timeline">>))
        /\ UNCHANGED nonApiVars

\* the kinds of the items of a search result
ItemKinds == {"youtube#video", "youtube#channel"}
ItemLists == UNION {[1..n -> ItemKinds] : n \in 0..MaxItems}

\* lines 314-315: the items that are videos, in order
RECURSIVE Videos(_)
Videos(items) ==
    IF items = <<>> THEN <<>>
    ELSE (IF Head(items) = "youtube#video" THEN <<Head(items)>> ELSE <<>>)
             \o Videos(Tail(items))

\* get_youtube_videos, lines 281-316
GetYoutubeVideos ==
    \E key \in BOOLEAN,
       met \in {"ConnectionError", "other exception", "not json", "error",
                "items"},
       items \in ItemLists :
        /\ apiRes' =
              IF ~key
              THEN [op |-> "youtube", calls |-> <<>>, result |-> REmpty]
              ELSE [op |-> "youtube", calls |-> <<Call(YoutubeUrl, met)>>,
                    result |-> CASE met = "ConnectionError" -> REmpty
                                 [] met = "other exception" -> REmpty
                                 [] met = "not json" -> RRaise(met)
                                 [] met = "error" -> REmpty
                                 [] met = "items" -> RValue(Videos(items))]
        /\ UNCHANGED <<twToken, nonApiVars>>

(***************************************************************************)
(* Workshop pages (workshop/views.py, workshop/models.py).                 *)
(***************************************************************************)
\* primary keys the Workshop table may hand out
MaxWorkshopId == 2
\* the last instant of the clock
MaxTime == 2

WorkshopIds == 1..MaxWorkshopId
Times == 0..MaxTime
NoWorkshop == [absent |-> TRUE]

\* the fields of the Workshop model, models.py lines 27-39
WorkshopFields ==
    {"code_name", "start_date", "end_date", "registration_start_date",
     "registration_end_date", "speakers", "body_markdown", "body_html",
     "description", "created", "modified", "is_online"}

\* slugs a request names: "w", "ws"
Slugs == {<<"w">>, <<"w", "s">>}
CodeNames == {<<"w">>, <<"w", "s">>}

\* the rows an administrator stores; of the fields those a view reads
WorkshopRows ==
    [code_name : CodeNames, registration_start_date : Times,
     is_online : BOOLEAN]

LiveWorkshops(ws) == {id \in WorkshopIds : ws[id] # NoWorkshop}

\* Workshop.objects.get(<field>__contains=value), views.py line 18: a
\* keyword that names no field of the model raises FieldError; otherwise
\* the number of rows that match decides
GetContaining(ws, field, value) ==
    IF field \notin WorkshopFields
    THEN [exc |-> "FieldError", id |-> 0]
    ELSE LET found == {id \in LiveWorkshops(ws) :
                          Contains(ws[id][field], value)} IN
         IF found = {} THEN [exc |-> "DoesNotExist", id |-> 0]
         ELSE IF Cardinality(found) > 1
         THEN [exc |-> "MultipleObjectsReturned", id |-> 0]
         ELSE [exc |-> "none", id |-> CHOOSE id \in found : TRUE]

\* workshop.<field> on a model instance
Attribute(row, field) ==
    IF field \in DOMAIN row
    THEN [exc |-> "none", value |-> row[field]]
    ELSE [exc |-> "AttributeError", value |-> FALSE]

ComingSoonPage == "render:workshop/comingsoon.html"
WorkshopPage == "render:workshop/index.html"
EventSpacePage == "render:workshop/eventspace.html"
ServerError(exc) == <<"error", exc>>

\* index(request, workshop_slug), views.py lines 17-32: the response.  A
\* model instance is never falsy, so line 20 is not reached.
IndexResponse(ws, slug, time) ==
    LET got == GetContaining(ws, "slug", slug) IN
    IF got.exc # "none" THEN ServerError(got.exc)
    ELSE LET workshop == ws[got.id]
             published == Attribute(workshop, "is_published") IN
         IF published.exc # "none" THEN ServerError(published.exc)
         ELSE IF ~published.value THEN <<NotFound>>
         ELSE IF time < workshop.registration_start_date
         THEN <<ComingSoonPage>>
         ELSE <<WorkshopPage>>

\* a workshop is stored or changed through the admin site
AdminSaveWorkshop ==
    \E id \in WorkshopIds, row \in WorkshopRows :
        /\ workshops' = [workshops EXCEPT ![id] = row]
        /\ UNCHANGED <<now, wsResp, nonWsVars>>

\* time passes
Tick ==
    /\ now < MaxTime
    /\ now' = now + 1
    /\ UNCHANGED <<workshops, wsResp, nonWsVars>>

\* index(request, workshop_slug), views.py lines 17-32
Index ==
    \E slug \in Slugs :
        /\ wsResp' = [op |-> "index", slug |-> slug, at |-> now,
                      status |-> IndexResponse(workshops, slug, now)]
        /\ UNCHANGED <<workshops, now, nonWsVars>>

\* eventspace(request, workshop_slug), views.py lines 35-40
EventSpace ==
    \E slug \in Slugs :
        LET got == GetContaining(workshops, "slug", slug) IN
        /\ wsResp' = [op |-> "eventspace", slug |-> slug, at |-> now,
                      status |-> IF got.exc # "none" THEN ServerError(got.exc)
                                 ELSE <<EventSpacePage>>]
        /\ UNCHANGED <<workshops, now, nonWsVars>>

(***************************************************************************)
(* Publications (manage_publications.py).  Field values are strings,       *)
(* written as sequences of pieces; <<>> is the empty string.               *)
(***************************************************************************)
NoPub == [absent |-> TRUE]
\* the value of a field the code never assigns
FieldDefault == <<"(default)">>
LivePubs(ps) == {id \in PubIds : ps[id] # NoPub}

\* Python truthiness of a string or None
Truthy(v) == v # None /\ v # <<>>

\* Publication(title=..., author=..., url=...), line 71
Publication(title, author, url) ==
    [title |-> title, author |-> author, url |-> url,
     entry_type |-> FieldDefault, doi |-> FieldDefault,
     published_in |-> FieldDefault, publisher |-> FieldDefault,
     year_of_publication |-> FieldDefault,
     month_of_publication |-> FieldDefault,
     bibtex |-> FieldDefault, is_highlighted |-> FALSE]

\* the keys of a parsed citation the handler reads
SourceKeys == {"title", "author", "authors", "url", "link", "doi"}
OptKeys == {"ENTRYTYPE", "journal", "booktitle", "publisher", "year", "month"}
\* the further keys a citation is submitted with
ExtraKeySets == {{}, OptKeys}
\* keys that may be submitted with an empty value
EmptyKeys == {"title"}

\* a parsed entry with the keys P, those in E empty; a key's value names
\* the key it came from
BibEntry(P, E) == [k \in P |-> IF k \in E THEN <<>> ELSE <<k>>]
BibEntries ==
    {BibEntry(P \cup X, E) :
        P \in SUBSET SourceKeys, X \in ExtraKeySets, E \in SUBSET EmptyKeys}

Has(b, k) == k \in DOMAIN b

\* lines 49-52
BibTitle(b) == IF Has(b, "title") THEN b["title"] ELSE None

\* lines 54-59: the elif branch reads bibInfo['aithors']
AuthorsKeyError(b) ==
    ~Has(b, "author") /\ Has(b, "authors") /\ ~Has(b, "aithors")
BibAuthors(b) ==
    IF Has(b, "author") THEN b["author"]
    ELSE IF Has(b, "authors") THEN b["aithors"]
    ELSE None

\* lines 61-68
BibUrl(b) ==
    IF Has(b, "url") THEN b["url"]
    ELSE IF Has(b, "link") THEN b["link"]
    ELSE IF Has(b, "doi") THEN <<"https://doi.org/">> \o b["doi"]
    ELSE None

AcceptsWithoutUrl(title, authors, url) == Truthy(title) /\ Truthy(authors)

\* line 70
Accepts(title, authors, url) == Truthy(title) /\ Truthy(authors) /\ Truthy(url)

Opt(b, k, old) == IF Has(b, k) THEN b[k] ELSE old

\* lines 71-88: the object that is saved
BibPublication(b, raw) ==
    LET p == Publication(BibTitle(b), BibAuthors(b), BibUrl(b)) IN
    [p EXCEPT !.entry_type = Opt(b, "ENTRYTYPE", @),
              !.doi = Opt(b, "doi", @),
              !.published_in = Opt(b, "booktitle", Opt(b, "journal", @)),
              !.publisher = Opt(b, "publisher", @),
              !.year_of_publication = Opt(b, "year", @),
              !.month_of_publication = Opt(b, "month", @),
              !.bibtex = raw]

\* what the theorems need of a submitted citation
Summary(parse, b) ==
    [parse |-> parse,
     title |-> parse = "entry" /\ Has(b, "title"),
     author |-> parse = "entry" /\ Has(b, "author"),
     authors |-> parse = "entry" /\ Has(b, "authors"),
     source |-> parse = "entry" /\ \E k \in {"url", "link", "doi"} : Has(b, k),
     blank |-> parse = "entry" /\ \E k \in DOMAIN b : b[k] = <<>>]

FormPage == "render:addeditpublication.html"
BibPage == "render:addpublicationbibtex.html"
Dashboard == "redirect:/dashboard/publications/"

BibResp(method, status, sum) ==
    [op |-> "add_bibtex", method |-> method, status |-> status, cite |-> sum]

\* add_publication(request, "bibtex") on a request that is no POST,
\* lines 42-43 and 98-99
AddBibtexGet ==
    /\ pubResp' = BibResp("GET", BibPage, Summary("none", <<>>))
    /\ UNCHANGED <<pubs, nextPubId, nonPubVars>>

\* lines 43-47 and 95-96: bibtexparser.loads raises, or yields no entry
\* and entries[0] raises IndexError
AddBibtexUnparsed ==
    \E parse \in {"raise", "noentries"} :
        /\ pubResp' = BibResp("POST", BibPage, Summary(parse, <<>>))
        /\ UNCHANGED <<pubs, nextPubId, nonPubVars>>

\* lines 43-70 and 92-96: the entry raises KeyError or fails the test of
\* line 70; nothing is saved and the citation page is rendered again
AddBibtexRejected ==
    \E b \in BibEntries :
        /\ IF AuthorsKeyError(b) THEN TRUE
           ELSE ~Accepts(BibTitle(b), BibAuthors(b), BibUrl(b))
        /\ pubResp' = BibResp("POST", BibPage, Summary("entry", b))
        /\ UNCHANGED <<pubs, nextPubId, nonPubVars>>

\* lines 43-89 and 95-96: publicationObj.save() raises inside the try block
AddBibtexSaveFails ==
    \E b \in BibEntries :
        /\ ~AuthorsKeyError(b)
        /\ Accepts(BibTitle(b), BibAuthors(b), BibUrl(b))
        /\ pubResp' = BibResp("POST", BibPage, Summary("entry", b))
        /\ UNCHANGED <<pubs, nextPubId, nonPubVars>>

\* lines 43-90: the entry is saved and the dashboard is shown
AddBibtexSaved ==
    \E b \in BibEntries :
        /\ ~AuthorsKeyError(b)
        /\ Accepts(BibTitle(b), BibAuthors(b), BibUrl(b))
        /\ nextPubId <= MaxPubId
        /\ pubs' = [pubs EXCEPT ![nextPubId] = BibPublication(b, <<"raw">>)]
        /\ nextPubId' = nextPubId + 1
        /\ pubResp' = BibResp("POST", Dashboard, Summary("entry", b))
        /\ UNCHANGED nonPubVars

(***************************************************************************)
(* Publications: manual add, edit, delete and highlight.  Each request is  *)
(* handled on its own; the form's fields are not modelled beyond the       *)
(* values a valid submission stores.                                       *)
(***************************************************************************)
\* what a valid AddEditPublicationForm submission carries
FormData ==
    [title : {<<"t1">>, <<"t2">>}, author : {<<"a">>}, url : {<<"u">>},
     is_highlighted : BOOLEAN]

\* submitted_form.save(): the form's values on a new or a given instance
ApplyForm(p, data) ==
    [p EXCEPT !.title = data.title, !.author = data.author,
              !.url = data.url, !.is_highlighted = data.is_highlighted]

\* identifiers a request may name: those of the table and two that no
\* record ever has
RequestIds == 0..(MaxPubId + 1)

\* Publication.objects.get(id=publication_id) finds a record
PubExists(ps, id) == id \in PubIds /\ ps[id] # NoPub

RemoveAllPubs(ps, id) == [i \in PubIds |-> NoPub]

\* p.delete()
RemovePub(ps, id) == [ps EXCEPT ![id] = NoPub]

\* request.POST.getlist('highlights[]') when the boxes of the records in
\* ticked are checked; extra stands for values no checkbox produces
ExtraValues == {<<"0", "1">>}
Submitted(ticked, extra) == {Str(i) : i \in ticked} \cup extra

HighlightIfNamed(p, id, submitted) ==
    [p EXCEPT !.is_highlighted = @ \/ Str(id) \in submitted]

\* lines 148-152: the flag one record is saved with
Highlight(p, id, submitted) ==
    [p EXCEPT !.is_highlighted = Str(id) \in submitted]

DashboardPage == "render:dashboard_publications.html"
HighlightPage == "render:highlightpublications.html"

\* dashboard_publications, lines 16-21
DashboardPublications ==
    /\ pubResp' = [op |-> "dashboard", method |-> "GET",
                   status |-> DashboardPage]
    /\ UNCHANGED <<pubs, nextPubId, nonPubVars>>

\* add_publication(request, method) for "manual" and for a method that is
\* neither "manual" nor "bibtex", lines 26-41 and 100-101
AddPublication ==
    \E method \in {"manual", "other"}, verb \in {"GET", "POST"},
       valid \in BOOLEAN, data \in FormData :
        LET resp(status) == [op |-> "add", method |-> verb,
                             status |-> status] IN
        IF method # "manual"
        THEN /\ pubResp' = resp(NotFound)
             /\ UNCHANGED <<pubs, nextPubId, nonPubVars>>
        ELSE IF verb # "POST" \/ ~valid
        THEN /\ pubResp' = resp(FormPage)
             /\ UNCHANGED <<pubs, nextPubId, nonPubVars>>
        ELSE /\ nextPubId <= MaxPubId
             /\ pubs' = [pubs EXCEPT ![nextPubId] =
                            ApplyForm(Publication(None, None, None), data)]
             /\ nextPubId' = nextPubId + 1
             /\ pubResp' = resp(Dashboard)
             /\ UNCHANGED nonPubVars

\* edit_publication, lines 104-126
EditPublication ==
    \E id \in RequestIds, verb \in {"GET", "POST"}, valid \in BOOLEAN,
       data \in FormData :
        LET resp(status) == [op |-> "edit", method |-> verb,
                             status |-> status, id |-> id] IN
        IF ~PubExists(pubs, id)
        THEN /\ pubResp' = resp(NotFound)
             /\ UNCHANGED <<pubs, nextPubId, nonPubVars>>
        ELSE IF verb # "POST" \/ ~valid
        THEN /\ pubResp' = resp(FormPage)
             /\ UNCHANGED <<pubs, nextPubId, nonPubVars>>
        ELSE /\ pubs' = [pubs EXCEPT ![id] = ApplyForm(pubs[id], data)]
             /\ pubResp' = resp(Dashboard)
             /\ UNCHANGED <<nextPubId, nonPubVars>>

\* delete_publication, lines 129-137
DeletePublication ==
    \E id \in RequestIds :
        LET resp(status) == [op |-> "delete", method |-> "GET",
                             status |-> status, id |-> id] IN
        IF ~PubExists(pubs, id)
        THEN /\ pubResp' = resp(NotFound)
             /\ UNCHANGED <<pubs, nextPubId, nonPubVars>>
        ELSE /\ pubs' = RemovePub(pubs, id)
             /\ pubResp' = resp(Dashboard)
             /\ UNCHANGED <<nextPubId, nonPubVars>>

\* highlight_publications, lines 140-158
HighlightPublications ==
    \E verb \in {"GET", "POST"}, ticked \in SUBSET RequestIds,
       extra \in SUBSET ExtraValues :
        IF verb # "POST"
        THEN /\ pubResp' = [op |-> "highlight", method |-> verb,
                            status |-> HighlightPage, ticked |-> {}]
             /\ UNCHANGED <<pubs, nextPubId, nonPubVars>>
        ELSE /\ pubs' = [id \in PubIds |->
                            IF pubs[id] = NoPub THEN NoPub
                            ELSE Highlight(pubs[id], id,
                                           Submitted(ticked, extra))]
             /\ pubResp' = [op |-> "highlight", method |-> verb,
                            status |-> Dashboard, ticked |-> ticked]
             /\ UNCHANGED <<nextPubId, nonPubVars>>

InitPubs ==
    /\ pubs = [id \in PubIds |-> NoPub]
    /\ nextPubId = 1
    /\ pubResp = [op |-> "none", method |-> "none", status |-> "none"]

(***************************************************************************)
(* Specifications.                                                         *)
(***************************************************************************)
InitIntro == introRes = [op |-> "none"]
InitApi == apiRes = [op |-> "none"] /\ twToken = None
InitWs ==
    /\ workshops = [id \in WorkshopIds |-> NoWorkshop]
    /\ now = 0
    /\ wsResp = [op |-> "none"]

Init == InitDocs /\ InitPubs /\ InitIntro /\ InitApi /\ InitWs

\* documentation sync and background refresh
Next == NextDocs
Spec == Init /\ [][Next]_vars

\* the table as a sync of both versions leaves it when its background
\* thread fails at the first fetch
DocsSynced(disp) ==
    LET st == [id \in Ids |->
                  IF id = 1 THEN NewDoc("1.0", disp[1])
                  ELSE IF id = 2 THEN NewDoc("dev", disp[2])
                  ELSE NoRow] IN
    /\ store = st
    /\ nextId = 3
    /\ hs = [h \in Syncs |->
                [HIdle EXCEPT !.resp = "ok",
                              !.ret = JoinIds(DisplayedIds(st)),
                              !.base = [listing |-> Versions,
                                        count |-> VersionCount(st)]]]
    /\ tasks = [t \in TaskIds |-> TFailed]

\* the home page's fragments, over an empty and over a synced table
InitIntroPages ==
    /\ InitDocs
       \/ \E disp \in {<<TRUE, TRUE>>, <<FALSE, TRUE>>, <<FALSE, FALSE>>} :
             DocsSynced(disp)
    /\ InitPubs /\ InitIntro /\ InitApi /\ InitWs
NextIntro ==
    \/ GetDipyIntroBlank
    \/ GetDipyIntroNoDocs
    \/ GetDipyIntroNotFound
    \/ GetDipyIntroRaises
    \/ GetDipyIntro
SpecIntro == InitIntroPages /\ [][NextIntro]_vars

\* two overlapping invocations of update_documentations
NextConcurrent ==
    \E h \in Syncs :
        \/ SyncStart(h)
        \/ SyncStartFails(h)
        \/ SyncCheck(h)
        \/ SyncInsert(h)
        \/ SyncLoad(h)
        \/ SyncResetKept(h)
        \/ SyncDelete(h)
        \/ SyncResave(h)
        \/ SyncLaunch(h)
        \/ SyncReturn(h)
SpecConcurrent == Init /\ [][NextConcurrent]_vars

\* the tutorials listing, over an empty and over a synced table
InitExamples ==
    /\ InitDocs \/ DocsSynced(<<TRUE, TRUE>>)
    /\ InitPubs /\ InitIntro /\ InitApi /\ InitWs
NextExamples ==
    \/ GetDocExamplesNoPage
    \/ GetDocExamples
SpecExamples == InitExamples /\ [][NextExamples]_vars

\* external integrations
NextApi ==
    \/ HasCommitPermission
    \/ GetFacebookPageFeed
    \/ GetTwitterFeed
    \/ GetYoutubeVideos
SpecApi == Init /\ [][NextApi]_vars

\* workshop pages
NextWorkshop ==
    \/ AdminSaveWorkshop
    \/ Tick
    \/ Index
    \/ EventSpace
SpecWorkshop == Init /\ [][NextWorkshop]_vars

\* citation intake
NextBibtex ==
    \/ AddBibtexGet
    \/ AddBibtexUnparsed
    \/ AddBibtexRejected
    \/ AddBibtexSaveFails
    \/ AddBibtexSaved
SpecBibtex == Init /\ [][NextBibtex]_vars

\* publication management
NextPublications ==
    \/ DashboardPublications
    \/ AddPublication
    \/ EditPublication
    \/ DeletePublication
    \/ HighlightPublications
SpecPublications == Init /\ [][NextPublications]_vars

(***************************************************************************)
(* Documentation sync: properties.                                         *)
(***************************************************************************)
\* the step in which update_documentations returns its ids
Returns(h) ==
    hs[h].pc = "return" /\ hs'[h].pc = "idle" /\ hs'[h].resp = "ok"

\* the reset pass (lines 213-217) has gone through every loaded doc
PassDone(h) == hs[h].pc = "pass" /\ hs[h].todo = {}

\* C1: when update_documentations returns, the version labels of the
\* stored records are exactly the directories of the listing it read.
C1_StoreEqualsListing ==
    [][\A h \in Handlers :
          Returns(h) => TrackedVersions(store') = hs[h].listing]_vars

\* C2: at the step that ends the reset pass every stored record has
\* is_updated false, and a stored record has is_updated true only with all
\* three fragments written by fetches that returned.
C2_FreshOnlyAfterRefresh ==
    /\ [][\A h \in Handlers :
             (~PassDone(h) /\ PassDone(h)')
                 => \A id \in Live(store') : ~store'[id].is_updated]_vars
    /\ [](\A id \in Live(store) :
             store[id].is_updated =>
                 /\ store[id].tutorials = Fetched
                 /\ store[id].gallery = Fetched
                 /\ store[id].intro = Fetched)

\* C3: a run of update_documentations that follows a completed run of the
\* same request thread against the same listing returns with the same
\* number of records per version label as the first run left: no record
\* more, none less.
C3_SyncIdempotent ==
    [][\A h \in Handlers :
          (/\ Returns(h)
           /\ hs[h].base # NoSync
           /\ hs[h].base.listing = hs[h].listing)
              => VersionCount(store') = hs[h].base.count]_vars

\* the step in which update_documentations starts its thread
Launches(h) == hs[h].pc = "pass" /\ hs'[h].pc = "return"
\* the threads a step starts
Started == {t \in TaskIds : tasks[t].pc # "load" /\ tasks'[t].pc = "load"}

\* C11: update_documentations returns the joined ids of the records that
\* were displayed when it started its thread: the value is that of the ids
\* handed to the thread, it is returned whatever the thread has done by
\* then, no step of a thread changes it afterwards, and a thread is
\* started in the launching step of an invocation and nowhere else, one
\* thread per step, one launching step per return.
C11_ReturnsWithoutWaiting ==
    /\ [][\A h \in Handlers :
             Launches(h) =>
                 /\ Cardinality(Started) = 1
                 /\ \A t \in Started :
                        tasks'[t].ids =
                            {id \in Ids : store[id] # NoRow
                                            /\ store[id].displayed}
                 /\ \A t \in TaskIds \ Started : tasks'[t] = tasks[t]
                 /\ hs'[h].displayed_id =
                        {id \in Ids : store[id] # NoRow /\ store[id].displayed}
                 /\ store' = store]_vars
    /\ [][\A h \in Handlers :
             Returns(h) =>
                 /\ hs'[h].ret = JoinIds(hs[h].displayed_id)
                 /\ tasks' = tasks
                 /\ store' = store]_vars
    /\ [][\A h \in Handlers :
             (hs'[h].pc = "return" /\ hs[h].pc # "return") => Launches(h)]_vars
    /\ [][Started # {} => \E h \in Handlers : Launches(h)]_vars
    /\ [][(tasks' # tasks /\ Started = {}) => hs' = hs]_vars

\* two ids were returned and the thread that was given them has failed
C11_Witness ==
    \E h \in Handlers, t \in TaskIds :
        /\ hs[h].resp = "ok"
        /\ hs[h].ret = <<"1", "_", "2">>
        /\ tasks[t].pc = "failed"

\* the step in which a fragment fetch of thread t raises
FetchFails(t) ==
    tasks[t].pc \in {"tutorials", "gallery", "intro"} /\ tasks'[t].pc = "failed"

\* C12: the thread fetches and saves tutorials, then gallery, then intro;
\* when a fetch raises nothing is written, and the record of the version
\* then holds the fragments fetched before, the later fragments as they
\* were when the thread loaded the record, and is_updated false.
C12_PartialRefreshKept ==
    /\ [][\A t \in TaskIds :
             (tasks[t].pc \in {"tutorials", "gallery"} /\ tasks'[t] # tasks[t]
                  /\ ~FetchFails(t)) =>
                 /\ tasks'[t].pc = IF tasks[t].pc = "tutorials"
                                   THEN "gallery" ELSE "intro"
                 /\ store'[tasks[t].cur.pk] # NoRow
                 /\ IF tasks[t].pc = "tutorials"
                    THEN store'[tasks[t].cur.pk].tutorials = Fetched
                    ELSE store'[tasks[t].cur.pk].gallery = Fetched]_vars
    /\ [][\A t \in TaskIds :
             FetchFails(t) =>
                 /\ store' = store
                 /\ LET r == store'[tasks[t].cur.pk]
                        mine == tasks[t].cur.row IN
                    r # NoRow =>
                        /\ tasks[t].pc \in {"gallery", "intro"} =>
                               r.tutorials = Fetched
                        /\ tasks[t].pc = "intro" => r.gallery = Fetched
                        /\ tasks[t].pc = "tutorials" =>
                               r.tutorials = mine.tutorials
                        /\ tasks[t].pc \in {"tutorials", "gallery"} =>
                               r.gallery = mine.gallery
                        /\ r.intro = mine.intro
                        /\ ~r.is_updated]_vars

\* between two states, record id has no fragment newly fetched and is not
\* newly marked updated
NotRefreshed(id) ==
    (store[id] # NoRow /\ store'[id] # NoRow) =>
        /\ store'[id].tutorials = Fetched => store[id].tutorials = Fetched
        /\ store'[id].gallery = Fetched => store[id].gallery = Fetched
        /\ store'[id].intro = Fetched => store[id].intro = Fetched
        /\ store'[id].is_updated => store[id].is_updated

FetchStep(t) ==
    tasks[t].pc \in {"tutorials", "gallery", "intro"} /\ tasks'[t] # tasks[t]
BothNotFound(f) ==
    /\ Len(f.calls) = 2
    /\ f.calls[1].met = "not found"
    /\ f.calls[2].met = "not found"

\* C15: a fetch of the thread that makes a request asks for the direct
\* file of its path first, makes a second request exactly when the first
\* met 404, then for the directory index, and makes no third; when both
\* met 404 it returns the empty result, and the thread assigns it, saves
\* the record and goes on to the next fragment (after the intro, to the
\* next record or to its end).
C15_FallbackThenEmpty ==
    [][\A t \in TaskIds :
          FetchStep(t) =>
              LET f == tasks'[t].last
                  pc == tasks[t].pc
                  v == DocsVersion(store, tasks[t].cur.row.version)
                  path == IF pc = "intro" THEN "index" ELSE "examples_index"
              IN
              /\ Len(f.calls) <= 2
              /\ Len(f.calls) >= 1 =>
                     f.calls[1].url = <<BaseUrl, v, "/", path, ".fjson">>
              /\ Len(f.calls) = 2 <=>
                     (Len(f.calls) >= 1 /\ f.calls[1].met = "not found")
              /\ Len(f.calls) = 2 =>
                     f.calls[2].url = <<BaseUrl, v, "/", path, "/index.fjson">>
              /\ BothNotFound(f) =>
                     /\ f.result = "empty"
                     /\ store'[tasks[t].cur.pk] =
                            Assign(tasks[t].cur.row, pc, Fetched)
                     /\ tasks'[t].pc =
                            CASE pc = "tutorials" -> "gallery"
                              [] pc = "gallery" -> "intro"
                              [] pc = "intro" ->
                                    IF tasks[t].todo = {} THEN "done"
                                    ELSE "tutorials"]_vars

\* both requests for the tutorials met 404 and the thread is at the
\* gallery with the record saved
C15_Witness ==
    \E t \in TaskIds :
        /\ tasks[t].pc = "gallery"
        /\ BothNotFound(tasks[t].last)
        /\ tasks[t].last.result = "empty"
        /\ store[tasks[t].cur.pk] = tasks[t].cur.row

\* C17: no version label is carried by two stored records, whatever the
\* interleaving of the request threads that run update_documentations.
C17_OneRecordPerVersion == \A v \in Versions : MatchCount(store, v) <= 1

\* the step of request thread h that follows its doc.delete()
AfterDelete(h) == hs[h].pc = "resave" /\ hs'[h].pc # "resave"
\* thread t holds a copy of a record whose row is gone from the table
HoldsDeleted(t) ==
    /\ tasks[t].pc \in {"tutorials", "gallery", "intro"}
    /\ store[tasks[t].cur.pk] = NoRow

\* C18: the step that follows a doc.delete() of update_documentations puts
\* no row into the table, and a step of a thread that holds a copy of a
\* deleted record leaves that record's row absent.
C18_DeletedStaysDeleted ==
    /\ [][\A h \in Handlers :
             AfterDelete(h) => Live(store') \subseteq Live(store)]_vars
    /\ [][\A t \in TaskIds :
             (HoldsDeleted(t) /\ tasks'[t] # tasks[t]) =>
                 store'[tasks[t].cur.pk] = NoRow]_vars

(***************************************************************************)
(* Citation intake: properties.                                            *)
(***************************************************************************)
\* a step that answers a submitted citation
BibtexPost == pubResp'.op = "add_bibtex" /\ pubResp'.method = "POST"
Complete(cite) ==
    cite.parse = "entry" /\ cite.title /\ (cite.author \/ cite.authors)
        /\ cite.source
NewPubs == {id \in PubIds : pubs[id] = NoPub /\ pubs'[id] # NoPub}
OldPubsKept == \A id \in PubIds : pubs[id] # NoPub => pubs'[id] = pubs[id]

\* C5: a submitted citation inserts a record only when it parsed and has
\* a title, an author field and a URL source; one that did not parse or
\* lacks any of the three inserts nothing and gets the citation page
\* again; a submission inserts one record or none.
C5_BibtexInsertsOnlyComplete ==
    [][BibtexPost =>
          /\ OldPubsKept
          /\ Cardinality(NewPubs) <= 1
          /\ NewPubs # {} => Complete(pubResp'.cite)
          /\ ~Complete(pubResp'.cite) =>
                 /\ pubs' = pubs
                 /\ pubResp'.status = BibPage]_vars

\* a citation with a title and an author but no URL source was turned
\* down after another one had been stored
C5_Witness ==
    /\ pubResp.op = "add_bibtex"
    /\ pubResp.method = "POST"
    /\ pubResp.status = BibPage
    /\ pubResp.cite.parse = "entry"
    /\ pubResp.cite.title
    /\ pubResp.cite.author
    /\ ~pubResp.cite.source
    /\ LivePubs(pubs) # {}

\* C14: a submitted citation with a title, a URL source, no blank value
\* and its author under 'authors' but not under 'author' is accepted: the
\* dashboard is shown and one record is created whose author is the value
\* of 'authors'.
C14_AuthorsSpellingAccepted ==
    [][(/\ BibtexPost
        /\ pubResp'.cite.parse = "entry"
        /\ pubResp'.cite.title
        /\ pubResp'.cite.source
        /\ pubResp'.cite.authors
        /\ ~pubResp'.cite.author
        /\ ~pubResp'.cite.blank) =>
           /\ pubResp'.status = Dashboard
           /\ Cardinality(NewPubs) = 1
           /\ \A id \in NewPubs : pubs'[id].author = <<"authors">>]_vars

(***************************************************************************)
(* Publication management: properties.                                     *)
(***************************************************************************)
\* C4: after a POST to highlight_publications with the identifiers S
\* ticked, every stored publication is highlighted exactly when its
\* identifier is in S, whatever the flags were before, the empty S
\* included.
C4_HighlightExactlySubmitted ==
    [][(pubResp'.op = "highlight" /\ pubResp'.method = "POST") =>
          \A id \in LivePubs(pubs') :
              pubs'[id].is_highlighted <=> id \in pubResp'.ticked]_vars

\* a highlighted record was left out of S and a plain one was ticked
C4_Witness ==
    /\ pubResp.op = "highlight"
    /\ pubResp.method = "POST"
    /\ \E id \in LivePubs(pubs) : id \notin pubResp.ticked
    /\ \E id \in LivePubs(pubs) : id \in pubResp.ticked
    /\ \E id \in RequestIds \ LivePubs(pubs) : id \in pubResp.ticked

\* C9: edit_publication and delete_publication answer not-found for an
\* identifier no record has and leave the store as it was;
\* delete_publication with a stored identifier removes that record and
\* no other.
C9_UnknownIdNotFound ==
    [][pubResp'.op \in {"edit", "delete"} =>
          /\ ~PubExists(pubs, pubResp'.id) =>
                 pubResp'.status = NotFound /\ pubs' = pubs
          /\ (pubResp'.op = "delete" /\ PubExists(pubs, pubResp'.id)) =>
                 /\ pubs'[pubResp'.id] = NoPub
                 /\ \A id \in PubIds \ {pubResp'.id} : pubs'[id] = pubs[id]]_vars

\* a record was deleted while another one stayed
C9_Witness ==
    /\ pubResp.op = "delete"
    /\ pubResp.status = Dashboard
    /\ pubResp.id \in PubIds
    /\ pubs[pubResp.id] = NoPub
    /\ LivePubs(pubs) # {}

(***************************************************************************)
(* Intro fragment: properties.                                             *)
(***************************************************************************)
AbsoluteOrFragment(l) ==
    StartsWith(l, HashMark) \/ StartsWith(l, Http) \/ StartsWith(l, Https)

\* C6: in the highlights and in the announcements container alike, a
\* link's href is left as it is exactly when it starts with '#', 'http:/'
\* or 'https:/', and every other href gets 'documentation/latest/' put in
\* front.
C6_HrefRewrittenUnlessAbsolute ==
    (introRes.op = "intro" /\ introRes.status = "ok") =>
        /\ \A k \in 1..Len(introRes.page.highlight) :
              introRes.out.highlight[k] =
                  IF AbsoluteOrFragment(introRes.page.highlight[k])
                  THEN introRes.page.highlight[k]
                  ELSE LatestPrefix \o introRes.page.highlight[k]
        /\ \A k \in 1..Len(introRes.page.announcement) :
              introRes.out.announcement[k] =
                  IF AbsoluteOrFragment(introRes.page.announcement[k])
                  THEN introRes.page.announcement[k]
                  ELSE LatestPrefix \o introRes.page.announcement[k]

(***************************************************************************)
(* Tutorials listing: properties.                                          *)
(***************************************************************************)
\* the list items of a section whose link starts with '../examples_built'
Hits(items) ==
    {i \in 1..Len(items) :
        /\ items[i] # NoLink
        /\ Len(items[i]) >= Len(ExamplesBuilt)
        /\ \A c \in 1..Len(ExamplesBuilt) : items[i][c] = ExamplesBuilt[c]}

\* an entry lists one example per such item, in the order of the items,
\* and is valid exactly when it lists any
Listed(entry, items) ==
    /\ Len(entry.examples_list) = Cardinality(Hits(items))
    /\ \A i \in Hits(items) :
          LET n == Cardinality({j \in Hits(items) : j <= i}) IN
          entry.examples_list[n].link =
              <<"/documentation/", DocsVersion(store, introRes.version), "/",
                "examples_index", "/">> \o items[i]
    /\ entry.valid <=> entry.examples_list # <<>>
    /\ Hits(items) = {} => ~entry.valid

\* C16: the result of get_doc_examples has one entry per major section of
\* the page, in page order; a major section without minor sections and
\* every minor section lists exactly the examples of its list items whose
\* link starts with '../examples_built', is valid exactly when that list
\* is not empty, and is in the result also when it is empty.
C16_EverySectionListed ==
    (introRes.op = "examples" /\ introRes.status = "ok") =>
        /\ Len(introRes.out) = Len(introRes.page)
        /\ \A k \in 1..Len(introRes.page) :
              LET major == introRes.page[k]
                  entry == introRes.out[k] IN
              /\ entry.title = major.title
              /\ Len(entry.minor_sections) = Len(major.minors)
              /\ Len(major.minors) = 0 => Listed(entry, major.items)
              /\ \A j \in 1..Len(major.minors) :
                    /\ entry.minor_sections[j].title = major.minors[j].title
                    /\ Listed(entry.minor_sections[j], major.minors[j].items)

\* a page whose first section has links but no example and whose second
\* has a minor section with an example and an empty one
C16_Witness ==
    /\ introRes.op = "examples"
    /\ introRes.status = "ok"
    /\ Len(introRes.page) = 2
    /\ Len(introRes.page[1].items) = 2
    /\ ~introRes.out[1].valid
    /\ Len(introRes.out[2].minor_sections) = 2
    /\ introRes.out[2].minor_sections[1].valid
    /\ ~introRes.out[2].minor_sections[2].valid

(***************************************************************************)
(* External integrations: properties.                                      *)
(***************************************************************************)
\* the address an integration asks for its result
Endpoint(op) ==
    CASE op = "github" -> GithubUrl
      [] op = "facebook" -> FacebookUrl
      [] op = "twitter" -> TwitterUrl
      [] op = "youtube" -> YoutubeUrl
ConnectionFailed(res) ==
    \E k \in 1..Len(res.calls) :
        res.calls[k] = Call(Endpoint(res.op), "ConnectionError")

\* C7: each of the four integrations returns an empty or neutral result
\* when its outbound call meets a connection error, and never lets the
\* error reach its caller.
C7_ConnectionErrorTolerated ==
    (apiRes.op # "none" /\ ConnectionFailed(apiRes)) =>
        apiRes.result \in {REmpty, RFalse}

\* C8: has_commit_permission returns true exactly when the token is not
\* empty and the listing holds an entry with the requested name and with
\* admin, push and pull all true; with an empty token it returns false
\* and makes no outbound call.
C8_PermissionIffAllThree ==
    apiRes.op = "github" =>
        /\ apiRes.result = RTrue <=>
              /\ apiRes.token # <<>>
              /\ \E k \in 1..Len(apiRes.listing) :
                    /\ apiRes.listing[k].name = apiRes.repo
                    /\ apiRes.listing[k].permissions.admin
                    /\ apiRes.listing[k].permissions.push
                    /\ apiRes.listing[k].permissions.pull
        /\ apiRes.token = <<>> =>
              apiRes.result = RFalse /\ apiRes.calls = <<>>

\* the listing names the repository twice, first without push, and the
\* answer is true
C8_Witness ==
    /\ apiRes.op = "github"
    /\ apiRes.result = RTrue
    /\ Len(apiRes.listing) = 2
    /\ apiRes.listing[1].name = apiRes.repo
    /\ ~apiRes.listing[1].permissions.push

\* a step of get_twitter_feed, and whether it made the credential exchange
TwitterCall == apiRes'.op = "twitter"
Exchanged(res) ==
    \E k \in 1..Len(res.calls) : res.calls[k].url = TwitterTokenUrl

\* C13: get_twitter_feed makes the credential exchange exactly when the
\* process holds no cached token; a cached token is never replaced, and a
\* call that finds one sends that token and makes no exchange.
C13_ExchangeOnlyWhenUncached ==
    /\ [][TwitterCall => (Exchanged(apiRes') <=> twToken = None)]_vars
    /\ [][twToken # None => twToken' = twToken]_vars
    /\ [][(TwitterCall /\ twToken # None) => apiRes'.token = twToken]_vars

\* a call found a token an earlier call had cached and asked only for the
\* timeline
C13_Witness ==
    /\ apiRes.op = "twitter"
    /\ apiRes.token \in Tokens
    /\ twToken = apiRes.token
    /\ Len(apiRes.calls) = 1
    /\ apiRes.calls[1].url = TwitterUrl

\* the exchange of a step met a connection error or an answer without an
\* access token
ExchangeFailed(res) ==
    \E k \in 1..Len(res.calls) :
        /\ res.calls[k].url = TwitterTokenUrl
        /\ res.calls[k].met \in {"ConnectionError", "no access_token"}

\* C20: a credential exchange that meets a connection error or an answer
\* without an access token caches the empty token; the cached empty token
\* stays, and every later call sends it and makes no exchange.
C20_FailedExchangeCached ==
    /\ [][(TwitterCall /\ ExchangeFailed(apiRes')) => twToken' = <<>>]_vars
    /\ [][twToken = <<>> =>
             /\ twToken' = <<>>
             /\ TwitterCall =>
                    apiRes'.token = <<>> /\ ~Exchanged(apiRes')]_vars

\* after a failed exchange a call sent the empty token without an exchange
C20_Witness ==
    /\ twToken = <<>>
    /\ apiRes.op = "twitter"
    /\ apiRes.token = <<>>
    /\ Len(apiRes.calls) = 1
    /\ apiRes.calls[1].url = TwitterUrl

(***************************************************************************)
(* Workshop pages: properties.                                             *)
(***************************************************************************)
\* the workshops whose slug matches the requested one
Matching(ws, slug) ==
    {id \in LiveWorkshops(ws) :
        "slug" \in DOMAIN ws[id] /\ Contains(ws[id].slug, slug)}
Published(row) == "is_published" \in DOMAIN row /\ row.is_published

\* C10: the workshop index answers not-found when no workshop matches the
\* slug or the matching one is not published; for a published workshop it
\* shows the coming-soon page exactly when the time is before the
\* registration start, and the index page otherwise.
C10_IndexNotFoundOrPage ==
    [][(wsResp'.op = "index" /\ wsResp' # wsResp) =>
          LET m == Matching(workshops, wsResp'.slug) IN
          IF \A id \in m : ~Published(workshops[id])
          THEN wsResp'.status = <<NotFound>>
          ELSE \A id \in m :
                  Published(workshops[id]) =>
                      wsResp'.status =
                          IF now < workshops[id].registration_start_date
                          THEN <<ComingSoonPage>>
                          ELSE <<WorkshopPage>>]_vars

====
